---- MODULE Spec2Model ----
(***************************************************************************)
(* BlurText (src/blur-text.js): classification of characters by ordered    *)
(* category lookup, decomposition of an element's text into word and       *)
(* letter containers, and the constructor that merges options, checks      *)
(* character coverage, resolves the target and processes its elements.     *)
(*                                                                         *)
(* Strings are sequences of Unicode code points (for...of and new Set(str) *)
(* iterate a string by code point).  A JavaScript object with string keys  *)
(* is a sequence of [key, value] entries in own-property order.            *)
(***************************************************************************)
EXTENDS Naturals, Sequences, FiniteSets

Range(s) == {s[i] : i \in DOMAIN s}

RECURSIVE Flatten(_)
\* Array.prototype.join('') / string concatenation of a list of strings.
Flatten(ss) == IF ss = <<>> THEN <<>> ELSE Head(ss) \o Flatten(Tail(ss))

(***************************************************************************)
(* BlurText._defaultOptions                                                *)
(***************************************************************************)
\* charCategories.tallUp: the 90 code points of the string literal.
TallUpChars ==
  <<
    65, 66, 67, 68, 69, 70, 71, 72, 73, 74, 75, 76, 77, 78, 79, 80, 81,
    82, 83, 84, 85, 86, 87, 88, 89, 90, 1040, 1041, 1042, 1043, 1044,
    1045, 1025, 1046, 1047, 1048, 1049, 1050, 1051, 1052, 1053, 1054,
    1055, 1056, 1057, 1058, 1059, 1060, 1061, 1062, 1063, 1064, 1065,
    1066, 1067, 1068, 1069, 1070, 1071, 98, 100, 102, 104, 107, 108, 116,
    1073, 47, 124, 91, 93, 123, 125, 33, 63, 36, 35, 64, 40, 41, 48, 49,
    50, 51, 52, 53, 54, 55, 56, 57
  >>

\* charCategories.tallDown: the 11 code points of the string literal.
TallDownChars ==
  <<
    103, 106, 112, 113, 121, 1091, 1092, 1094, 1095, 1097, 1088
  >>

\* charCategories.low: the 43 code points of the string literal.
LowChars ==
  <<
    97, 99, 101, 109, 110, 111, 114, 115, 117, 118, 119, 120, 122, 1072,
    1074, 1075, 1076, 1077, 1105, 1078, 1079, 1080, 1081, 1082, 1083,
    1084, 1085, 1086, 1087, 1089, 1090, 1093, 1095, 1096, 1098, 1099,
    1100, 1101, 1102, 1103, 58, 59, 37
  >>

\* charCategories.smallUp: the 7 code points of the string literal.
SmallUpChars ==
  <<
    42, 94, 180, 96, 168, 39, 34
  >>

\* charCategories.smallCenter: the 9 code points of the string literal.
SmallCenterChars ==
  <<
    126, 45, 8211, 8212, 61, 43, 177, 171, 187
  >>

\* charCategories.smallDown: the 3 code points of the string literal.
SmallDownChars ==
  <<
    46, 44, 95
  >>

\* masterCharList: the 163 code points of the reference alphabet.
MasterCharList ==
  <<
    65, 66, 67, 68, 69, 70, 71, 72, 73, 74, 75, 76, 77, 78, 79, 80, 81,
    82, 83, 84, 85, 86, 87, 88, 89, 90, 97, 98, 99, 100, 101, 102, 103,
    104, 105, 106, 107, 108, 109, 110, 111, 112, 113, 114, 115, 116, 117,
    118, 119, 120, 121, 122, 1040, 1041, 1042, 1043, 1044, 1045, 1025,
    1046, 1047, 1048, 1049, 1050, 1051, 1052, 1053, 1054, 1055, 1056,
    1057, 1058, 1059, 1060, 1061, 1062, 1063, 1064, 1065, 1066, 1067,
    1068, 1069, 1070, 1071, 1072, 1073, 1074, 1075, 1076, 1077, 1105,
    1078, 1079, 1080, 1081, 1082, 1083, 1084, 1085, 1086, 1087, 1088,
    1089, 1090, 1091, 1092, 1093, 1094, 1095, 1096, 1097, 1099, 1100,
    1101, 1102, 1103, 48, 49, 50, 51, 52, 53, 54, 55, 56, 57, 33, 64, 35,
    36, 37, 94, 38, 42, 40, 41, 95, 43, 45, 61, 91, 93, 123, 125, 124, 92,
    59, 58, 39, 34, 60, 62, 44, 46, 63, 47, 126, 96, 171, 187, 8211, 8212
  >>

Entry(k, v) == [key |-> k, value |-> v]

DefaultCharCategories ==
  << Entry("tallUp", TallUpChars),
     Entry("tallDown", TallDownChars),
     Entry("low", LowChars),
     Entry("smallUp", SmallUpChars),
     Entry("smallCenter", SmallCenterChars),
     Entry("smallDown", SmallDownChars) >>

DefaultOptions ==
  [ charCategories   |-> DefaultCharCategories,
    wordWrapperClass |-> "word-wrapper",
    letterClass      |-> "letter" ]

(***************************************************************************)
(* Object spread: { ...base, ...over }.  A key already present keeps its   *)
(* position and takes the new value; a new key is appended.                *)
(***************************************************************************)
HasKey(obj, k) == \E i \in DOMAIN obj : obj[i].key = k

SetKey(obj, e) ==
  IF HasKey(obj, e.key)
    THEN [i \in DOMAIN obj |-> IF obj[i].key = e.key THEN e ELSE obj[i]]
    ELSE Append(obj, e)

RECURSIVE Spread(_, _)
Spread(base, over) ==
  IF over = <<>> THEN base
  ELSE Spread(SetKey(base, Head(over)), Tail(over))

\* A caller's options: `keys' are the top-level keys it supplies;
\* charCategories is read as (options.charCategories || {}).
NoOptions ==
  [ keys |-> {}, charCategories |-> <<>>,
    wordWrapperClass |-> "", letterClass |-> "" ]

MergeCharCategoriesDropDefaults(defaults, options) ==
  IF "charCategories" \in options.keys THEN options.charCategories
  ELSE defaults.charCategories

\* constructor, lines 42-45: the charCategories of this.options.
MergeCharCategories(defaults, options) ==
  Spread(defaults.charCategories,
         IF "charCategories" \in options.keys
           THEN options.charCategories ELSE <<>>)

\* constructor, lines 39-46: this.options.
MergeOptions(defaults, options) ==
  [ charCategories   |-> MergeCharCategories(defaults, options),
    wordWrapperClass |-> IF "wordWrapperClass" \in options.keys
                           THEN options.wordWrapperClass
                           ELSE defaults.wordWrapperClass,
    letterClass      |-> IF "letterClass" \in options.keys
                           THEN options.letterClass
                           ELSE defaults.letterClass ]

(***************************************************************************)
(* _validateCharCoverage: the reference characters found in no category,   *)
(* in reference order (missingChars).                                      *)
(***************************************************************************)
AllDefinedCharsFirstOnly(charCategories) ==
  IF charCategories = <<>> THEN {} ELSE Range(charCategories[1].value)

AllDefinedChars(charCategories) ==
  Range(Flatten([i \in DOMAIN charCategories |-> charCategories[i].value]))

MissingChars(charCategories) ==
  LET allDefinedChars == AllDefinedChars(charCategories)
      NotDefined(char) == char \notin allDefinedChars
  IN  SelectSeq(MasterCharList, NotDefined)

(***************************************************************************)
(* _getCharCategory: the first category, in own-property order, whose      *)
(* string includes the character; 'low' when none does.                    *)
(***************************************************************************)
RECURSIVE GetCharCategoryLastMatch(_, _)
GetCharCategoryLastMatch(charCategories, char) ==
  IF charCategories = <<>> THEN "low"
  ELSE LET n == Len(charCategories) IN
       IF char \in Range(charCategories[n].value)
         THEN charCategories[n].key
         ELSE GetCharCategoryLastMatch(SubSeq(charCategories, 1, n - 1), char)

RECURSIVE GetCharCategory(_, _)
GetCharCategory(charCategories, char) ==
  IF charCategories = <<>> THEN "low"
  ELSE IF char \in Range(Head(charCategories).value)
         THEN Head(charCategories).key
         ELSE GetCharCategory(Tail(charCategories), char)

(***************************************************************************)
(* Whitespace: the characters \s matches and String.prototype.trim strips  *)
(* (WhiteSpace and LineTerminator of the language).                        *)
(***************************************************************************)
WhiteSpaceChars ==
  {9, 10, 11, 12, 13, 32, 160, 5760, 8232, 8233, 8239, 8287, 12288, 65279}
    \cup (8192 .. 8202)

IsSpace(char) == char \in WhiteSpaceChars

\* The end (exclusive) of the run of whitespace that starts at q: /\s+/ is greedy.
RECURSIVE RunEnd(_, _)
RunEnd(text, q) ==
  IF q <= Len(text) /\ IsSpace(text[q]) THEN RunEnd(text, q + 1) ELSE q

\* text.split(/(\s+)/) from position p, scanning for a match at q >= p: each
\* match pushes the substring before it and its capture.
RECURSIVE SplitFrom(_, _, _)
SplitFrom(text, p, q) ==
  IF q > Len(text) THEN << SubSeq(text, p, Len(text)) >>
  ELSE IF ~IsSpace(text[q]) THEN SplitFrom(text, p, q + 1)
  ELSE LET e == RunEnd(text, q) IN
       << SubSeq(text, p, q - 1), SubSeq(text, q, e - 1) >>
         \o SplitFrom(text, e, e)

RECURSIVE SplitNoCaptureFrom(_, _, _)
SplitNoCaptureFrom(text, p, q) ==
  IF q > Len(text) THEN << SubSeq(text, p, Len(text)) >>
  ELSE IF ~IsSpace(text[q]) THEN SplitNoCaptureFrom(text, p, q + 1)
  ELSE LET e == RunEnd(text, q) IN
       << SubSeq(text, p, q - 1) >> \o SplitNoCaptureFrom(text, e, e)

\* text.split(/\s+/): the separators are not kept.
SplitNoCapture(text) == SplitNoCaptureFrom(text, 1, 1)

\* line 109: const parts = text.split(/(\s+)/)
Split(text) == SplitFrom(text, 1, 1)

RECURSIVE TrimStart(_)
TrimStart(s) ==
  IF s # <<>> /\ IsSpace(Head(s)) THEN TrimStart(Tail(s)) ELSE s

RECURSIVE TrimEnd(_)
TrimEnd(s) ==
  IF s # <<>> /\ IsSpace(s[Len(s)]) THEN TrimEnd(SubSeq(s, 1, Len(s) - 1))
  ELSE s

TrimNothing(s) == s

\* String.prototype.trim
Trim(s) == TrimEnd(TrimStart(s))

(***************************************************************************)
(* The document.  The page holds the elements of Elems, each a target      *)
(* candidate; every other node is a value: a text node, a generated span,  *)
(* or a reference to an element of Elems that is a child.                  *)
(***************************************************************************)
Elems == {"e1", "e2", "e3"}

DocumentOrder == << "e1", "e2", "e3" >>

TextNode(s) ==
  [ kind |-> "text", data |-> s, classList |-> <<>>, childNodes |-> <<>>,
    ref |-> "none" ]

Span(classes, nodes) ==
  [ kind |-> "span", data |-> <<>>, classList |-> classes,
    childNodes |-> nodes, ref |-> "none" ]

ElementNode(e) ==
  [ kind |-> "element", data |-> <<>>, classList |-> <<>>,
    childNodes |-> <<>>, ref |-> e ]

\* Node.textContent of a list of sibling nodes: the text of all descendants,
\* in order.  cn gives the children of the elements of Elems.
RECURSIVE NodesText(_, _)
NodesText(nodes, cn) ==
  IF nodes = <<>> THEN <<>>
  ELSE LET n == Head(nodes) IN
       (CASE n.kind = "text"    -> n.data
          [] n.kind = "span"    -> NodesText(n.childNodes, cn)
          [] n.kind = "element" -> NodesText(cn[n.ref], cn))
         \o NodesText(Tail(nodes), cn)

\* element.textContent
TextContent(e, cn) == NodesText(cn[e], cn)

\* Whether the element is in the document.
RECURSIVE IsConnected(_, _)
IsConnected(e, pn) ==
  IF pn[e] = "document" THEN TRUE
  ELSE IF pn[e] = "none" THEN FALSE
  ELSE IsConnected(pn[e], pn)

\* Whether e is a descendant of a.
RECURSIVE IsDescendant(_, _, _)
IsDescendant(e, a, pn) ==
  IF pn[e] \notin Elems THEN FALSE
  ELSE IF pn[e] = a THEN TRUE
  ELSE IsDescendant(pn[e], a, pn)

\* DOMTokenList.add: a token already present is not added again.
ClassListAdd(classList, token) ==
  IF token \in Range(classList) THEN classList ELSE Append(classList, token)

(***************************************************************************)
(* _processElement, lines 109-132: the nodes appended for the source text. *)
(***************************************************************************)
\* lines 123-127: the span of one character.
CharSpan(char, options) ==
  Span(ClassListAdd(<< options.letterClass >>,
                    GetCharCategory(options.charCategories, char)),
       << TextNode(<< char >>) >>)

\* lines 120-129: the span of one word.
WordWrapper(part, options) ==
  Span(<< options.wordWrapperClass >>,
       [i \in DOMAIN part |-> CharSpan(part[i], options)])

\* lines 111-132: what one part appends to the element.
PartNodes(part, options) ==
  IF Trim(part) = <<>> /\ Len(part) > 0 THEN << TextNode(part) >>
  ELSE IF Len(part) > 0 THEN << WordWrapper(part, options) >>
  ELSE <<>>

Decompose(text, options) ==
  LET parts == Split(text)
  IN  Flatten([i \in DOMAIN parts |-> PartNodes(parts[i], options)])

(***************************************************************************)
(* Values handed to the constructor and to _processElement.                *)
(***************************************************************************)
SelectorTarget(s) ==
  [ kind |-> "string", selector |-> s, element |-> "none", list |-> <<>> ]

ElementTarget(e) ==
  [ kind |-> "element", selector |-> "", element |-> e, list |-> <<>> ]

NodeListTarget(l) ==
  [ kind |-> "NodeList", selector |-> "", element |-> "none", list |-> l ]

ArrayTarget(l) ==
  [ kind |-> "Array", selector |-> "", element |-> "none", list |-> l ]

NullTarget ==
  [ kind |-> "null", selector |-> "", element |-> "none", list |-> <<>> ]

\* The page's markup: every element carries class "blur"; ids are e1..e3.
Matches(selector, e) ==
  CASE selector = ".blur" -> TRUE
    [] selector = "#e2"   -> e = "e2"
    [] OTHER              -> FALSE

\* document.querySelectorAll: a NodeList of the matching elements that are
\* in the document, in document order.
QuerySelectorAll(selector, pn) ==
  LET Hit(e) == IsConnected(e, pn) /\ Matches(selector, e)
  IN  NodeListTarget(SelectSeq(DocumentOrder, Hit))

\* line 50
ResolveElements(target, pn) ==
  IF target.kind = "string" THEN QuerySelectorAll(target.selector, pn)
  ELSE target

\* line 52: !elements.  null is falsy; every object, an empty NodeList
\* included, is truthy.
IsFalsy(elements) == elements.kind = "null"

ElementsArrayAlwaysWrap(elements) == << elements >>

\* line 57
ElementsArray(elements) ==
  IF elements.kind = "NodeList"
    THEN [i \in DOMAIN elements.list |-> ElementTarget(elements.list[i])]
    ELSE << elements >>

Advisory(k, chars, target) == [ kind |-> k, chars |-> chars, target |-> target ]

\* lines 48-55: the console.warn calls of one construction, in order.
ConstructorWarnings(options, target, elements) ==
  LET missingChars == MissingChars(options.charCategories)
  IN  (IF Len(missingChars) > 0
         THEN << Advisory("coverage", missingChars, NullTarget) >> ELSE <<>>)
      \o
      (IF IsFalsy(elements)
         THEN << Advisory("not-found", <<>>, target) >> ELSE <<>>)

(***************************************************************************)
(* _processElement on the value v with the document dom: the document      *)
(* afterwards and the path taken.                                          *)
(***************************************************************************)
\* element.innerHTML = '': the children are removed; a child element leaves
\* the tree with its own subtree intact.
ClearInnerHTMLDeep(dom, e) ==
  [ dom EXCEPT
      !.childNodes = [x \in Elems |->
                        IF x = e \/ IsDescendant(x, e, dom.parentNode)
                          THEN <<>> ELSE dom.childNodes[x]],
      !.parentNode = [x \in Elems |->
                        IF dom.parentNode[x] = e THEN "none"
                        ELSE dom.parentNode[x]] ]

ClearInnerHTML(dom, e) ==
  [ dom EXCEPT
      !.childNodes[e] = <<>>,
      !.parentNode = [x \in Elems |->
                        IF dom.parentNode[x] = e THEN "none"
                        ELSE dom.parentNode[x]] ]

ProcessElementUnguarded(dom, v, options) ==
  IF v.kind # "element" THEN [ dom |-> dom, outcome |-> "no-text" ]
  ELSE LET e       == v.element
           text    == TextContent(e, dom.childNodes)
           cleared == ClearInnerHTML(dom, e)
       IN  [ dom |-> [ cleared EXCEPT
                         !.blurTextProcessed[e] = TRUE,
                         !.text[e] = text,
                         !.childNodes[e] = Decompose(text, options) ],
             outcome |-> "decomposed" ]

ProcessElement(dom, v, options) ==
  IF v.kind # "element" THEN [ dom |-> dom, outcome |-> "no-text" ]
  ELSE IF dom.blurTextProcessed[v.element]
    THEN [ dom |-> dom, outcome |-> "already" ]
  ELSE LET e       == v.element
           text    == TextContent(e, dom.childNodes)
           cleared == ClearInnerHTML(dom, e)
       IN  [ dom |-> [ cleared EXCEPT
                         !.blurTextProcessed[e] = TRUE,
                         !.text[e] = text,
                         !.childNodes[e] = Decompose(text, options) ],
             outcome |-> "decomposed" ]

(***************************************************************************)
(* State                                                                   *)
(***************************************************************************)
VARIABLES
  childNodes,         \* the children of each element of the page
  parentNode,         \* its parent: an element, "document" or "none"
  blurTextProcessed,  \* element.dataset.blurTextProcessed is set
  text,               \* the source text _processElement took from it
  defaultOptions,     \* BlurText._defaultOptions
  target,             \* the constructor's target argument
  callerOptions,      \* the constructor's options argument
  options,            \* this.options
  warned,             \* the console.warn calls of this construction
  queue,              \* the items elementsArray.forEach has yet to visit
  calls,              \* the _processElement calls of this construction
  documentAtCall,     \* the elements in the document when it was called
  pc                  \* "none": nothing constructed; "running"; "returned"

vars ==
  << childNodes, parentNode, blurTextProcessed, text, defaultOptions,
     target, callerOptions, options, warned, queue, calls, documentAtCall,
     pc >>

Dom ==
  [ childNodes |-> childNodes, parentNode |-> parentNode,
    blurTextProcessed |-> blurTextProcessed, text |-> text ]

TextNodes(s) == IF s = <<>> THEN <<>> ELSE << TextNode(s) >>

\* The page before any construction: e1 holds t["e1"] and, when nested,
\* the element e2 after it; e2 and e3 hold their texts.
InitPage(t, nested) ==
  /\ childNodes =
       [e \in Elems |->
          IF e = "e1" /\ nested THEN TextNodes(t[e]) \o << ElementNode("e2") >>
          ELSE TextNodes(t[e])]
  /\ parentNode =
       [e \in Elems |-> IF e = "e2" /\ nested THEN "e1" ELSE "document"]
  /\ blurTextProcessed = [e \in Elems |-> FALSE]
  /\ text = [e \in Elems |-> <<>>]
  /\ defaultOptions = DefaultOptions
  /\ target = NullTarget
  /\ callerOptions = NoOptions
  /\ options = DefaultOptions
  /\ warned = <<>>
  /\ queue = <<>>
  /\ calls = <<>>
  /\ documentAtCall = {}
  /\ pc = "none"

(***************************************************************************)
(* new BlurText(t, o) up to the forEach of line 59.                        *)
(***************************************************************************)
Construct(t, o) ==
  /\ pc # "running"
  /\ LET merged   == MergeOptions(defaultOptions, o)
         elements == ResolveElements(t, parentNode)
         items    == IF IsFalsy(elements) THEN <<>> ELSE ElementsArray(elements)
     IN  /\ target' = t
         /\ callerOptions' = o
         /\ options' = merged
         /\ warned' = ConstructorWarnings(merged, t, elements)
         /\ queue' = items
         /\ calls' = <<>>
         /\ documentAtCall' = {e \in Elems : IsConnected(e, parentNode)}
         /\ pc' = IF items = <<>> THEN "returned" ELSE "running"
  /\ UNCHANGED << childNodes, parentNode, blurTextProcessed, text,
                  defaultOptions >>

\* One iteration of elementsArray.forEach: _processElement on the next item.
ProcessStep ==
  /\ pc = "running"
  /\ queue # <<>>
  /\ LET r == ProcessElement(Dom, Head(queue), options)
     IN  /\ childNodes' = r.dom.childNodes
         /\ parentNode' = r.dom.parentNode
         /\ blurTextProcessed' = r.dom.blurTextProcessed
         /\ text' = r.dom.text
         /\ calls' = Append(calls, [ arg |-> Head(queue), outcome |-> r.outcome ])
  /\ queue' = Tail(queue)
  /\ pc' = IF Tail(queue) = <<>> THEN "returned" ELSE "running"
  /\ UNCHANGED << defaultOptions, target, callerOptions, options, warned,
                  documentAtCall >>

(***************************************************************************)
(* Inputs                                                                  *)
(***************************************************************************)
TextHi == << 72, 105 >>                        \* "Hi"
TextExample == << 97, 32, 32, 98, 9, 99 >>     \* "a  b\tc"

\* The texts of e1, e2 and e3 on the pages considered.
PageTexts ==
  { [e \in Elems |-> CASE e = "e1" -> t [] e = "e2" -> TextHi [] OTHER -> <<>>] :
      t \in { TextHi, TextExample, <<>> } }

Selectors == { ".blur", "#e2", "#does-not-exist" }

Targets ==
  { SelectorTarget(s) : s \in Selectors }
    \cup { ElementTarget(e) : e \in Elems }
    \cup { NodeListTarget(l) : l \in { << "e1", "e2", "e3" >>, <<>> } }
    \cup { ArrayTarget(<< "e1", "e2" >>), NullTarget }

WithCharCategories(cc) ==
  [ keys |-> {"charCategories"}, charCategories |-> cc,
    wordWrapperClass |-> "", letterClass |-> "" ]

WithClasses(w, l) ==
  [ keys |-> {"wordWrapperClass", "letterClass"}, charCategories |-> <<>>,
    wordWrapperClass |-> w, letterClass |-> l ]

\* { charCategories: { tallUp: 'XYZ' } }
OverrideTallUp == WithCharCategories(<< Entry("tallUp", << 88, 89, 90 >>) >>)

\* { charCategories: { extra: 'i&\\<>' } }: the characters the defaults miss.
OverrideExtra == WithCharCategories(<< Entry("extra", << 105, 38, 92, 60, 62 >>) >>)

PageOptions == { NoOptions, OverrideExtra, WithClasses("w", "l") }

Init == \E t \in PageTexts, nested \in BOOLEAN : InitPage(t, nested)

Next ==
  \/ \E t \in Targets, o \in PageOptions : Construct(t, o)
  \/ ProcessStep

Spec == Init /\ [][Next]_vars

(***************************************************************************)
(* Decomposition of every short text: one element, every string over a     *)
(* small alphabet of two letters and two kinds of whitespace.              *)
(***************************************************************************)
MaxLen == 6

TextAlphabet == { 97, 98, 32, 9 }

Strings(alphabet, n) == UNION { [1..k -> alphabet] : k \in 0..n }

TextInputs == Strings(TextAlphabet, MaxLen) \cup { TextHi, TextExample }

TextOptions == { NoOptions, WithClasses("w", "l") }

InitText ==
  \E s \in TextInputs : InitPage([e \in Elems |-> IF e = "e1" THEN s ELSE <<>>], FALSE)

\* A single construction on the page.
ConstructText ==
  /\ pc = "none"
  /\ \E o \in TextOptions : Construct(ElementTarget("e1"), o)

NextText == ConstructText \/ ProcessStep

SpecText == InitText /\ [][NextText]_vars

(***************************************************************************)
(* Classification under every small override of the categories.            *)
(***************************************************************************)
MaxOverrideKeys == 2
MaxCharsLen == 2

ConfigKeys == { "tallUp", "low", "extra" }

\* 'X' (tallUp by default), 'a' (low by default), 'i' (in no default category)
ConfigAlphabet == { 88, 97, 105 }

ConfigStrings ==
  { s \in Strings(ConfigAlphabet, MaxCharsLen) :
      \A i, j \in DOMAIN s : i < j => s[i] < s[j] }

ConfigEntries == { Entry(k, v) : k \in ConfigKeys, v \in ConfigStrings }

\* Object literals: no key twice.
ConfigMaps ==
  { m \in UNION { [1..n -> ConfigEntries] : n \in 0..MaxOverrideKeys } :
      \A i, j \in DOMAIN m : i # j => m[i].key # m[j].key }

ConfigOptions == { NoOptions } \cup { WithCharCategories(m) : m \in ConfigMaps }

\* Probe characters: 'X', 'a', 'i', 'g' (tallDown by default), U+0447 (in
\* tallDown and in low by default), U+03BB (in no category).
\* The page's text: the probe characters as one word.
ProbeText == << 88, 97, 105, 103, 1095, 955 >>

InitConfig == InitPage([e \in Elems |-> ProbeText], FALSE)

\* A single construction on the page.
ConstructConfig ==
  /\ pc = "none"
  /\ \E o \in ConfigOptions : Construct(ElementTarget("e1"), o)

NextConfig == ConstructConfig \/ ProcessStep

SpecConfig == InitConfig /\ [][NextConfig]_vars

(***************************************************************************)
(* Properties                                                              *)
(***************************************************************************)
\* The step of the construction in progress calls _processElement on e.
CallsOn(e) ==
  /\ pc = "running"
  /\ queue # <<>>
  /\ Head(queue) = ElementTarget(e)
  /\ calls' # calls

\* The outcome of the call a step has just made.
LastOutcome(cs) == cs[Len(cs)].outcome

\* The arguments of the calls made and of those still to come, in order.
CallList == [i \in DOMAIN calls |-> calls[i].arg] \o queue

DecomposedNow(e) ==
  \E i \in DOMAIN calls :
     calls[i] = [ arg |-> ElementTarget(e), outcome |-> "decomposed" ]

\* C1: round trip.  A step that decomposes a not-yet-processed element
\* leaves the concatenation, in child order, of its word containers' text
\* and its whitespace text nodes equal to the text it held before the step.
RoundTrip ==
  [][ \A e \in Elems :
        (~blurTextProcessed[e] /\ blurTextProcessed'[e]) =>
          NodesText(childNodes'[e], childNodes') = NodesText(childNodes[e], childNodes)
    ]_vars

\* C1 witness: a text that starts and ends with whitespace around a word
\* has been decomposed.
RoundTripWitness ==
  /\ blurTextProcessed["e1"]
  /\ text["e1"] = << 32, 97, 98, 9, 32 >>
  /\ Len(childNodes["e1"]) = 3

\* C2: idempotency.  A call on an element sets its processed marker; an
\* element is decomposed only when it does not carry the marker; and once an
\* element carries the marker no step changes its children or removes the
\* marker.
Idempotency ==
  [][ \A e \in Elems :
        /\ CallsOn(e) => blurTextProcessed'[e]
        /\ (CallsOn(e) /\ LastOutcome(calls') = "decomposed") => ~blurTextProcessed[e]
        /\ blurTextProcessed[e] =>
             (childNodes'[e] = childNodes[e] /\ blurTextProcessed'[e])
    ]_vars

\* C2 witness: a later construction, with other options, has called
\* _processElement on an element an earlier one decomposed.
IdempotencyWitness ==
  /\ callerOptions = WithClasses("w", "l")
  /\ \E i \in DOMAIN calls :
        /\ calls[i] = [ arg |-> ElementTarget("e1"), outcome |-> "already" ]
  /\ childNodes["e1"] # <<>>
  /\ childNodes["e1"][1].classList = << "word-wrapper" >>

\* The category the spans of the decomposed word give its k-th character.
LetterCategory(e, k) ==
  LET classList == childNodes[e][1].childNodes[k].classList
  IN  classList[Len(classList)]

\* The earliest category, in order, whose characters include char; "low"
\* when there is none.
IsFirstMatch(charCategories, char, category) ==
  LET hits == {i \in DOMAIN charCategories :
                 \E k \in DOMAIN charCategories[i].value :
                    charCategories[i].value[k] = char}
  IN  IF hits = {} THEN category = "low"
      ELSE \E i \in hits :
              /\ \A j \in hits : i <= j
              /\ category = charCategories[i].key

OverrideMap ==
  IF "charCategories" \in callerOptions.keys
    THEN callerOptions.charCategories ELSE <<>>

InSomeOverride(char) ==
  \E i \in DOMAIN OverrideMap : char \in Range(OverrideMap[i].value)

\* C4: category merge.  The merged categories are the default categories
\* the override does not name, with their default characters, and the
\* categories the override names, with the override's characters, each key
\* once; a character of the override's set for the first category is tagged
\* with it, and a character in no override set whose default category the
\* override does not name keeps its default category.
CategoryMerge ==
  pc # "none" =>
    LET merged   == options.charCategories
        defaults == defaultOptions.charCategories
    IN  /\ \A i \in DOMAIN defaults :
              ~HasKey(OverrideMap, defaults[i].key) =>
                 \E j \in DOMAIN merged : merged[j] = defaults[i]
        /\ \A i \in DOMAIN OverrideMap :
              \E j \in DOMAIN merged : merged[j] = OverrideMap[i]
        /\ \A i, j \in DOMAIN merged : merged[i].key = merged[j].key => i = j
        /\ Len(merged) =
             Len(defaults)
               + Cardinality({i \in DOMAIN OverrideMap :
                                ~HasKey(defaults, OverrideMap[i].key)})
        /\ blurTextProcessed["e1"] =>
             \A k \in DOMAIN ProbeText :
                LET char == ProbeText[k] IN
                /\ (\E i \in DOMAIN OverrideMap :
                       /\ OverrideMap[i].key = merged[1].key
                       /\ char \in Range(OverrideMap[i].value))
                     => LetterCategory("e1", k) = merged[1].key
                /\ (/\ ~InSomeOverride(char)
                    /\ \E d \in {"tallUp", "tallDown", "low"} :
                          /\ IsFirstMatch(defaults, char, d)
                          /\ ~HasKey(OverrideMap, d))
                     => IsFirstMatch(defaults, char, LetterCategory("e1", k))

\* C4 witness: under { tallUp: 'X' } 'X' is tagged tallUp, and 'a' and 'g',
\* of the untouched low and tallDown, keep their categories.
CategoryMergeWitness ==
  /\ blurTextProcessed["e1"]
  /\ callerOptions = WithCharCategories(<< Entry("tallUp", << 88 >>) >>)
  /\ LetterCategory("e1", 1) = "tallUp"
  /\ LetterCategory("e1", 2) = "low"
  /\ LetterCategory("e1", 4) = "tallDown"

\* C5: under the default configuration the text "Hi" decomposes into one
\* word container of two letter containers, 'H' and 'i', both tagged
\* tallUp.
HiScenario ==
  \A e \in Elems :
     (callerOptions = NoOptions /\ DecomposedNow(e) /\ text[e] = TextHi) =>
        childNodes[e] =
          << Span(<< "word-wrapper" >>,
                  << Span(<< "letter", "tallUp" >>, << TextNode(<< 72 >>) >>),
                     Span(<< "letter", "tallUp" >>, << TextNode(<< 105 >>) >>) >>) >>

\* The target resolves to no elements: it is null, or a selector that no
\* element of the document matches.
ResolvesToNothing ==
  IF target.kind = "string"
    THEN \A e \in Elems : ~(e \in documentAtCall /\ Matches(target.selector, e))
    ELSE target.kind = "null"

\* C6: resolution failure.  A construction whose target resolves to no
\* elements has logged an advisory naming the target and has processed
\* nothing.
ResolutionFailure ==
  (pc = "returned" /\ ResolvesToNothing) =>
     /\ \E i \in DOMAIN warned :
           warned[i].kind = "not-found" /\ warned[i].target = target
     /\ calls = <<>>

\* The elements of the target, in order.
TargetElements ==
  CASE target.kind = "string" ->
         LET Hit(e) == e \in documentAtCall /\ Matches(target.selector, e)
         IN  SelectSeq(DocumentOrder, Hit)
    [] target.kind = "element" -> << target.element >>
    [] OTHER -> target.list

AsElementTargets(l) == [i \in DOMAIN l |-> ElementTarget(l[i])]

\* C7 as stated: for every kind of target, an array included, the calls made
\* and still to come are the target's elements, once each, in order.
ProcessingOrderAnyCollection ==
  pc # "none" => CallList = AsElementTargets(TargetElements)

\* C7 as amended: that holds for a selector, a single element and a
\* NodeList; any other collection is passed to _processElement itself, as
\* one value, which returns at once, so none of its elements is processed.
ProcessingOrder ==
  pc # "none" =>
    IF target.kind = "Array"
      THEN /\ CallList = << target >>
           /\ \A i \in DOMAIN calls : calls[i].outcome = "no-text"
      ELSE /\ CallList = AsElementTargets(TargetElements)
           /\ \A i \in DOMAIN calls : calls[i].outcome # "no-text"

\* C7 witness: a selector matching the three elements; all three calls are
\* made, in document order.
ProcessingOrderWitness ==
  /\ pc = "returned"
  /\ target = SelectorTarget(".blur")
  /\ [i \in DOMAIN calls |-> calls[i].arg.element] = << "e1", "e2", "e3" >>

IsWhitespaceNode(n) ==
  /\ n.kind = "text"
  /\ n.data # <<>>
  /\ \A k \in DOMAIN n.data : IsSpace(n.data[k])

IsLetterNode(n) ==
  /\ n.kind = "span"
  /\ Len(n.childNodes) = 1
  /\ n.childNodes[1].kind = "text"
  /\ Len(n.childNodes[1].data) = 1
  /\ ~IsSpace(n.childNodes[1].data[1])
  /\ n.classList[1] = options.letterClass

IsWordNode(n) ==
  /\ n.kind = "span"
  /\ n.classList = << options.wordWrapperClass >>
  /\ n.childNodes # <<>>
  /\ \A k \in DOMAIN n.childNodes : IsLetterNode(n.childNodes[k])

\* C8: segmentation.  The children of a decomposed element are whitespace
\* text nodes (non-empty, whitespace only) and word containers (non-empty,
\* one letter container per character, no whitespace inside), strictly
\* alternating, whose texts in order make up the source text; "a  b\tc"
\* gives a, "  ", b, "\t", c.
Segmentation ==
  \A e \in Elems :
     blurTextProcessed[e] =>
        LET nodes == childNodes[e] IN
        /\ \A i \in DOMAIN nodes : IF nodes[i].kind = "text"
                                     THEN IsWhitespaceNode(nodes[i])
                                     ELSE IsWordNode(nodes[i])
        /\ \A i \in DOMAIN nodes : i < Len(nodes) => nodes[i].kind # nodes[i + 1].kind
        /\ Flatten([i \in DOMAIN nodes |-> NodesText(<< nodes[i] >>, childNodes)]) = text[e]
        /\ text[e] = TextExample =>
             /\ [i \in DOMAIN nodes |-> nodes[i].kind]
                  = << "span", "text", "span", "text", "span" >>
             /\ [i \in DOMAIN nodes |-> NodesText(<< nodes[i] >>, childNodes)]
                  = << << 97 >>, << 32, 32 >>, << 98 >>, << 9 >>, << 99 >> >>

\* C8 witness: "a  b\tc" has been decomposed into five children.
SegmentationWitness ==
  /\ blurTextProcessed["e1"]
  /\ text["e1"] = TextExample
  /\ Len(childNodes["e1"]) = 5

\* The reference characters no category of this.options contains.
Uncovered ==
  LET covered == UNION {Range(options.charCategories[i].value) :
                          i \in DOMAIN options.charCategories}
  IN  {char \in Range(MasterCharList) : char \notin covered}

CoverageAdvisories == {i \in DOMAIN warned : warned[i].kind = "coverage"}

\* C9: coverage check.  From the moment the constructor has merged the
\* options, before any element is processed, the log holds a coverage
\* advisory exactly when some reference character is in no category of the
\* merged configuration, it is the first advisory and names exactly those
\* characters; and the construction still processes every element of its
\* target.
CoverageCheck ==
  pc # "none" =>
    /\ Uncovered = {} => CoverageAdvisories = {}
    /\ Uncovered # {} =>
         /\ CoverageAdvisories = {1}
         /\ Range(warned[1].chars) = Uncovered
    /\ Len(CallList) = Len(IF target.kind = "Array" THEN << target >> ELSE TargetElements)
    /\ \A i \in DOMAIN calls :
          calls[i].arg.kind = "element" => blurTextProcessed[calls[i].arg.element]

\* C9 witness: the default configuration leaves 'i', '&', '\', '<' and '>'
\* uncovered; the advisory names them and the element is decomposed all the
\* same.
CoverageCheckWitness ==
  /\ pc = "returned"
  /\ callerOptions = NoOptions
  /\ warned # <<>>
  /\ warned[1] = Advisory("coverage", << 105, 38, 92, 60, 62 >>, NullTarget)
  /\ DecomposedNow("e1")

\* The elements of the target set of the construction in progress.
TargetSet == {CallList[i].element : i \in {j \in DOMAIN CallList : CallList[j].kind = "element"}}

\* C10 as stated: a call on one element leaves the children, the marker
\* and the attachment to the document of every other element of the target
\* set unchanged, and leaves this.options and the default options unchanged.
LocalityAnyTargetSet ==
  [][ \A e \in Elems :
        CallsOn(e) =>
          /\ \A o \in TargetSet \ {e} :
                /\ childNodes'[o] = childNodes[o]
                /\ blurTextProcessed'[o] = blurTextProcessed[o]
                /\ IsConnected(o, parentNode') = IsConnected(o, parentNode)
          /\ options' = options
          /\ defaultOptions' = defaultOptions
    ]_vars

\* C10 as amended: the children and the marker of every other element of
\* the target set are unchanged, and so are the options; the attachment of
\* another element is unchanged unless it is a descendant of the element
\* being decomposed, which is then removed from the document.
Locality ==
  [][ \A e \in Elems :
        CallsOn(e) =>
          /\ \A o \in TargetSet \ {e} :
                /\ childNodes'[o] = childNodes[o]
                /\ blurTextProcessed'[o] = blurTextProcessed[o]
                /\ IF IsDescendant(o, e, parentNode) /\ LastOutcome(calls') = "decomposed"
                     THEN ~IsConnected(o, parentNode')
                     ELSE IsConnected(o, parentNode') = IsConnected(o, parentNode)
          /\ options' = options
          /\ defaultOptions' = defaultOptions
    ]_vars

\* C10 witness: e1 has been decomposed while e2, its child and a target of
\* the same construction, was still to come: e2 is out of the document with
\* its own children intact.
LocalityWitness ==
  /\ DecomposedNow("e1")
  /\ "e2" \in TargetSet
  /\ parentNode["e2"] = "none"
  /\ childNodes["e2"] = << TextNode(TextHi) >>
  /\ ~blurTextProcessed["e2"]

====
